---- MODULE Spec2Model ----
(***************************************************************************)
(* Model of the housing-price web application (src/app.py), its training   *)
(* script (src/train.py) and the scheduled pipeline that calls it          *)
(* (src/dags/ml_pipeline_dag.py).                                          *)
(*                                                                         *)
(* State: the storage bucket (blob name -> content), the model registry of *)
(* "HousingPriceModel" (model versions with their stage), the training     *)
(* runs with the position each has reached in train_model, the promote     *)
(* requests that are between their read and their write of the registry,   *)
(* and what the step just taken produced: resp, the response of the        *)
(* handler that answered in it (NoResp when none did), and history, the    *)
(* list get_model_history built and returned in it.                        *)
(*                                                                         *)
(* Each view function of app.py is one action, modelled from its body.     *)
(* The decorator of promote_model (app.py:159) passes method= where Flask  *)
(* takes methods=; the model is of the handler the decorator wraps.        *)
(***************************************************************************)
EXTENDS Integers, Sequences, FiniteSets, Bags, TLC

VARIABLES bucket, registry, runs, promos, resp, history

vars == <<bucket, registry, runs, promos, resp, history>>

---------------------------------------------------------------------------
(* Bounds of the model *)

\* training runs started in one behaviour
MaxRuns == 2
\* promote requests in flight at the same time
MaxPromos == 2
\* entries get_model_history has appended when it sorts (SpecHist)
MaxHistLen == 3
\* highest version number in the registry (SpecHist)
MaxHistVersion == 11

---------------------------------------------------------------------------
(* Blob names: a path is the sequence of its components *)

DataBlob == <<"uploads", "test_data.csv">>
ModelBlob == <<"models", "model.pkl">>
UploadsPrefix == <<"uploads">>

\* filenames a request can carry
Filenames == { <<"test_data.csv">>, <<"uploads", "test_data.csv">> }

---------------------------------------------------------------------------
(* Datasets: the columns of the CSV and its rows (a row is its id; its     *)
(* label is_expensive is the id modulo 2).                                 *)

Good     == [cols |-> {"sqft", "is_expensive"}, rows |-> <<1, 2>>]
NoSqft   == [cols |-> {"is_expensive"}, rows |-> <<1, 2>>]
NoLabel  == [cols |-> {"sqft"}, rows |-> <<1, 2>>]

Datasets == {Good, NoSqft, NoLabel}

NoData == [cols |-> {}, rows |-> <<>>]

\* pickle.dumps(model): the bytes of the model fitted on df
Pickle(df) == [cols |-> {"pickle"}, rows |-> df.rows]

\* the files a request can carry: any dataset, under the name train_model reads
Files == [filename : {DataBlob}, data : Datasets]

Range(s) == { s[i] : i \in DOMAIN s }

---------------------------------------------------------------------------
(* Storage collaborator: the calls app.py and train.py make on a blob *)

exists(b, name) == name \in DOMAIN b

upload_from_file_append(b, name, data) ==
    [n \in DOMAIN b \cup {name} |->
        IF n = name
        THEN IF name \in DOMAIN b
             THEN [cols |-> data.cols, rows |-> b[name].rows \o data.rows]
             ELSE data
        ELSE b[n]]

upload_from_file(b, name, data) ==
    [n \in DOMAIN b \cup {name} |-> IF n = name THEN data ELSE b[n]]

delete(b, name) == [n \in DOMAIN b \ {name} |-> b[n]]

\* the training data train_model reads: uploads/test_data.csv
MemorySet(b) == IF exists(b, DataBlob) THEN b[DataBlob] ELSE NoData

---------------------------------------------------------------------------
(* Registry collaborator: the model versions of "HousingPriceModel" *)

Versions(reg) == { mv.version : mv \in reg }

MaxOf(S) == CHOOSE m \in S : \A x \in S : x <= m

StageOf(reg, v) == (CHOOSE mv \in reg : mv.version = v).stage

InProduction(reg) == { mv \in reg : mv.stage = "Production" }

\* the version number log_model(registered_model_name=...) gives the new version
next_version_reuse(reg) == IF reg = {} THEN 1 ELSE MaxOf(Versions(reg))

next_version(reg) == IF reg = {} THEN 1 ELSE MaxOf(Versions(reg)) + 1

create_model_version(reg, run) ==
    reg \cup {[version |-> next_version(reg), stage |-> "None", run |-> run]}

\* transition_model_version_stage(stage="Production", archive_existing_versions=True):
\* the versions it finds in Production besides the one promoted ...
archive_existing_versions(reg, v) ==
    { mv.version : mv \in { x \in reg : x.version # v /\ x.stage = "Production" } }

\* ... and what it writes: those versions Archived, the promoted one Production
transition_model_version_stage(reg, v, toArchive) ==
    { IF mv.version = v THEN [mv EXCEPT !.stage = "Production"]
      ELSE IF mv.version \in toArchive THEN [mv EXCEPT !.stage = "Archived"]
      ELSE mv : mv \in reg }

---------------------------------------------------------------------------
(* get_model_history: v.version is a string of decimal digits, int() reads *)
(* it back, and the list is sorted on that integer, descending.            *)

Digits(n) == IF n < 10 THEN <<n>> ELSE <<n \div 10, n % 10>>

RECURSIVE int(_)
int(s) == IF s = <<>> THEN 0
          ELSE 10 * int(SubSeq(s, 1, Len(s) - 1)) + s[Len(s)]

\* comparison of the digit strings themselves, character by character
RECURSIVE StrLess(_, _)
StrLess(a, b) ==
    IF a = <<>> THEN b # <<>>
    ELSE IF b = <<>> THEN FALSE
    ELSE IF a[1] # b[1] THEN a[1] < b[1]
    ELSE StrLess(Tail(a), Tail(b))

key_less_str(x, y) == StrLess(x.version, y.version)

\* key=lambda x: int(x['version'])
key_less(x, y) == int(x.version) < int(y.version)

\* sorted(..., reverse=True): stable insertion, larger keys first
RECURSIVE InsertDesc(_, _)
InsertDesc(e, s) ==
    IF s = <<>> THEN <<e>>
    ELSE IF key_less(s[1], e) THEN <<e>> \o s
    ELSE <<s[1]>> \o InsertDesc(e, Tail(s))

RECURSIVE sorted(_)
sorted(s) == IF s = <<>> THEN <<>>
             ELSE InsertDesc(s[Len(s)], sorted(SubSeq(s, 1, Len(s) - 1)))

\* the entry the loop appends for a model version
HistoryEntry(mv) == [version |-> Digits(mv.version), stage |-> mv.stage]

\* the orders search_model_versions can return the versions in
Listings(reg) ==
    { o \in [1..Cardinality(reg) -> reg] : \A i, j \in DOMAIN o : i # j => o[i] # o[j] }

---------------------------------------------------------------------------
(* Initial state: empty bucket, empty registry, no run, no request *)

NoResp == [op |-> "none", status |-> 0, arg |-> 0]

Response(op, status, arg) == [op |-> op, status |-> status, arg |-> arg]

NoHistory == [appended |-> <<>>, returned |-> <<>>, error |-> FALSE]

Init ==
    /\ bucket = << >>
    /\ registry = {}
    /\ runs = << >>
    /\ promos = EmptyBag
    /\ resp = NoResp
    /\ history = NoHistory

---------------------------------------------------------------------------
(* app.py: the view functions *)

\* get_model_history, for one listing `order` of the versions of which the
\* loop appends the first k before an exception ends it (error), or all
get_model_history(order, k, error) ==
    LET appended == [i \in 1..k |-> HistoryEntry(order[i])]
    IN  [appended |-> appended, returned |-> sorted(appended), error |-> error]

\* /dashboard: render_template is given files=files, a name the function
\* never binds, so the handler ends in its except branch
dashboard ==
    /\ \E order \in Listings(registry), error \in BOOLEAN :
         \E k \in 0..Len(order) :
            /\ IF error THEN (k < Len(order) \/ Len(order) = 0) ELSE k = Len(order)
            /\ history' = get_model_history(order, k, error)
    /\ resp' = Response("dashboard", 500, 0)
    /\ UNCHANGED <<bucket, registry, runs, promos>>

\* /upload: no file, a file whose blob write raises, or a file stored
upload ==
    /\ \/ /\ resp' = Response("upload", 400, 0)
          /\ UNCHANGED bucket
       \/ /\ resp' = Response("upload", 500, 0)
          /\ UNCHANGED bucket
       \/ \E file \in Files :
             /\ bucket' = upload_from_file(bucket, file.filename, file.data)
             /\ resp' = Response("upload", 302, 0)
    /\ history' = NoHistory
    /\ UNCHANGED <<registry, runs, promos>>

\* /delete/<filename>
delete_file ==
    /\ \E filename \in Filenames :
         LET full_path == UploadsPrefix \o filename
         IN  IF exists(bucket, full_path)
             THEN /\ bucket' = delete(bucket, full_path)
                  /\ resp' = Response("delete_file", 302, 0)
             ELSE /\ resp' = Response("delete_file", 404, 0)
                  /\ UNCHANGED bucket
    /\ history' = NoHistory
    /\ UNCHANGED <<registry, runs, promos>>

NoErr == [kind |-> "none", what |-> "none"]

Error(kind, what) == [kind |-> kind, what |-> what]

\* a training run as it is created, before train_model is entered
NewRun(origin, retry_of) ==
    [origin |-> origin, retry_of |-> retry_of, pc |-> "Idle",
     df |-> NoData, err |-> NoErr, tracking |-> "none", version |-> 0,
     registered |-> "no", pkl |-> "no"]

\* a thread whose target starts nothing
run_training_dropped(rs) == rs

\* what the background thread of /trigger-train does to the runs
run_training(rs) == Append(rs, NewRun("trigger", 0))

\* /trigger-train
trigger_train ==
    /\ Len(runs) < MaxRuns
    /\ runs' = run_training(runs)
    /\ resp' = Response("trigger_train", 202, 0)
    /\ history' = NoHistory
    /\ UNCHANGED <<bucket, registry, promos>>

\* /predict
predict ==
    /\ resp' = Response("predict", 200, 0)
    /\ history' = NoHistory
    /\ UNCHANGED <<bucket, registry, runs, promos>>

\* /promote/<version>, first half: the registry call reads the versions to
\* archive and looks the promoted version up; a version that does not exist
\* raises, and the handler answers with the error.  promos holds the
\* requests that have read and not yet written.
promote_model_read(version) ==
    /\ BagCardinality(promos) < MaxPromos
    /\ IF version \in Versions(registry)
       THEN /\ promos' = promos (+) SetToBag({
                   [version |-> version,
                    toArchive |-> archive_existing_versions(registry, version)]})
            /\ resp' = NoResp
       ELSE /\ resp' = Response("promote", 500, version)
            /\ UNCHANGED promos
    /\ history' = NoHistory
    /\ UNCHANGED <<bucket, registry, runs>>

\* /promote/<version>, second half: the registry call writes the stages and
\* the handler answers success
promote_model_write(p) ==
    /\ registry' = transition_model_version_stage(registry, p.version, p.toArchive)
    /\ promos' = promos (-) SetToBag({p})
    /\ resp' = Response("promote", 200, p.version)
    /\ history' = NoHistory
    /\ UNCHANGED <<bucket, runs>>

---------------------------------------------------------------------------
(* train.py: train_model, one action per stage.  pc names the stage the    *)
(* run is about to execute:                                                *)
(*   Idle        created, train_model not entered                          *)
(*   Validating  storage client and the existence check      (l. 33-45)    *)
(*   Aggregating download and read_csv of the training data  (l. 47-49)    *)
(*   Training    start_run, fit, score                       (l. 52-68)    *)
(*   Registering log_model(registered_model_name=...)        (l. 74-83)    *)
(*   Uploading   the legacy model.pkl                        (l. 87-95)    *)
(*   Done / Failed                                                         *)

\* errors train_model prints and returns on, and exceptions it lets escape
Returned == {"GCSConnect", "NoTrainingData"}
Raised == {"NotFound", "KeyError", "ValueError"}

Classes(df) == { df.rows[i] % 2 : i \in DOMAIN df.rows }

\* the subprocess or the PythonOperator enters train_model
start(r) ==
    /\ runs[r].pc = "Idle"
    /\ runs' = [runs EXCEPT ![r].pc = "Validating"]
    /\ resp' = NoResp
    /\ history' = NoHistory
    /\ UNCHANGED <<bucket, registry, promos>>

\* l. 33-45 without the return after the missing-blob message
validated_no_return(run, clientOk, found) ==
    IF ~clientOk
    THEN [run EXCEPT !.pc = "Failed", !.err = Error("GCSConnect", "none")]
    ELSE IF ~found
    THEN [run EXCEPT !.pc = "Aggregating", !.err = Error("NoTrainingData", "none")]
    ELSE [run EXCEPT !.pc = "Aggregating"]

\* l. 33-45: the client, then data_blob.exists()
validated(run, clientOk, found) ==
    IF ~clientOk
    THEN [run EXCEPT !.pc = "Failed", !.err = Error("GCSConnect", "none")]
    ELSE IF ~found
    THEN [run EXCEPT !.pc = "Failed", !.err = Error("NoTrainingData", "none")]
    ELSE [run EXCEPT !.pc = "Aggregating"]

validate(r) ==
    /\ runs[r].pc = "Validating"
    /\ \E clientOk \in BOOLEAN :
         runs' = [runs EXCEPT ![r] = validated(@, clientOk, exists(bucket, DataBlob))]
    /\ resp' = NoResp
    /\ history' = NoHistory
    /\ UNCHANGED <<bucket, registry, promos>>

\* l. 47-49: download_as_bytes raises when the blob has gone since the check
aggregate(r) ==
    /\ runs[r].pc = "Aggregating"
    /\ runs' = [runs EXCEPT ![r] =
          IF exists(bucket, DataBlob)
          THEN [@ EXCEPT !.pc = "Training", !.df = MemorySet(bucket)]
          ELSE [@ EXCEPT !.pc = "Failed", !.err = Error("NotFound", "none")]]
    /\ resp' = NoResp
    /\ history' = NoHistory
    /\ UNCHANGED <<bucket, registry, promos>>

\* l. 63 looking only for the feature column
fit_unchecked_label(df) ==
    IF "sqft" \notin df.cols THEN Error("KeyError", "sqft")
    ELSE IF Cardinality(Classes(df)) < 2 THEN Error("ValueError", "classes")
    ELSE NoErr

\* l. 63: df[['sqft']], then df['is_expensive'], then LogisticRegression.fit
fit(df) ==
    IF "sqft" \notin df.cols THEN Error("KeyError", "sqft")
    ELSE IF "is_expensive" \notin df.cols THEN Error("KeyError", "is_expensive")
    ELSE IF Cardinality(Classes(df)) < 2 THEN Error("ValueError", "classes")
    ELSE NoErr

\* l. 52-68: the tracking run is started, then the model is fitted
train(r) ==
    /\ runs[r].pc = "Training"
    /\ runs' = [runs EXCEPT ![r] =
          IF fit(runs[r].df) = NoErr
          THEN [@ EXCEPT !.pc = "Registering", !.tracking = "RUNNING"]
          ELSE [@ EXCEPT !.pc = "Failed", !.tracking = "FAILED",
                         !.err = fit(runs[r].df)]]
    /\ resp' = NoResp
    /\ history' = NoHistory
    /\ UNCHANGED <<bucket, registry, promos>>

\* l. 74-83 with the exception of log_model ending the run
registered_or_failed(run, ok, version) ==
    IF ok
    THEN [run EXCEPT !.pc = "Uploading", !.registered = "yes", !.version = version]
    ELSE [run EXCEPT !.pc = "Failed", !.registered = "failed", !.tracking = "FAILED"]

\* l. 74-83: log_model registers the version, or its exception is printed
registered(run, ok, version) ==
    IF ok
    THEN [run EXCEPT !.pc = "Uploading", !.registered = "yes", !.version = version]
    ELSE [run EXCEPT !.pc = "Uploading", !.registered = "failed"]

register(r) ==
    /\ runs[r].pc = "Registering"
    /\ \E ok \in BOOLEAN :
         /\ runs' = [runs EXCEPT ![r] = registered(@, ok, next_version(registry))]
         /\ registry' = IF ok THEN create_model_version(registry, r) ELSE registry
    /\ resp' = NoResp
    /\ history' = NoHistory
    /\ UNCHANGED <<bucket, promos>>

\* l. 87-95: models/model.pkl is written, or the exception is printed; the
\* with block of the tracking run ends normally
upload_legacy(r) ==
    /\ runs[r].pc = "Uploading"
    /\ \E ok \in BOOLEAN :
         /\ runs' = [runs EXCEPT ![r] =
               [@ EXCEPT !.pc = "Done", !.tracking = "FINISHED",
                         !.pkl = IF ok THEN "yes" ELSE "failed"]]
         /\ bucket' = IF ok THEN upload_from_file(bucket, ModelBlob, Pickle(runs[r].df))
                      ELSE bucket
    /\ resp' = NoResp
    /\ history' = NoHistory
    /\ UNCHANGED <<registry, promos>>

---------------------------------------------------------------------------
(* dags/ml_pipeline_dag.py: the daily task and its retry *)

Retries == 1

\* the scheduler starts the task train_and_register_mlflow
dag_run ==
    /\ Len(runs) < MaxRuns
    /\ runs' = Append(runs, NewRun("dag", 0))
    /\ resp' = NoResp
    /\ history' = NoHistory
    /\ UNCHANGED <<bucket, registry, promos>>

\* the number of the try a run is: 1, or one more than the run it retries
RECURSIVE try_number(_, _)
try_number(rs, r) ==
    IF rs[r].retry_of = 0 THEN 1 ELSE 1 + try_number(rs, rs[r].retry_of)

\* a task whose callable raised is run again, `retries` times
dag_retry(r) ==
    /\ Len(runs) < MaxRuns
    /\ runs[r].origin = "dag"
    /\ runs[r].pc = "Failed"
    /\ runs[r].err.kind \in Raised
    /\ \A q \in DOMAIN runs : runs[q].retry_of # r
    /\ try_number(runs, r) <= Retries
    /\ runs' = Append(runs, NewRun("dag", r))
    /\ resp' = NoResp
    /\ history' = NoHistory
    /\ UNCHANGED <<bucket, registry, promos>>

---------------------------------------------------------------------------

Next ==
    \/ dashboard
    \/ upload
    \/ delete_file
    \/ trigger_train
    \/ predict
    \/ \E version \in Versions(registry) \cup {next_version(registry)} :
          promote_model_read(version)
    \/ \E p \in BagToSet(promos) : promote_model_write(p)
    \/ dag_run
    \/ \E r \in DOMAIN runs : start(r)
    \/ \E r \in DOMAIN runs : validate(r)
    \/ \E r \in DOMAIN runs : aggregate(r)
    \/ \E r \in DOMAIN runs : train(r)
    \/ \E r \in DOMAIN runs : register(r)
    \/ \E r \in DOMAIN runs : upload_legacy(r)
    \/ \E r \in DOMAIN runs : dag_retry(r)

Spec == Init /\ [][Next]_vars

\* The training workflow and the storage it works on: the handlers and steps
\* that read or write the bucket or the runs.  dashboard, predict and
\* promote_model leave both unchanged.
NextTrain ==
    \/ upload
    \/ delete_file
    \/ trigger_train
    \/ dag_run
    \/ \E r \in DOMAIN runs : start(r)
    \/ \E r \in DOMAIN runs : validate(r)
    \/ \E r \in DOMAIN runs : aggregate(r)
    \/ \E r \in DOMAIN runs : train(r)
    \/ \E r \in DOMAIN runs : register(r)
    \/ \E r \in DOMAIN runs : upload_legacy(r)
    \/ \E r \in DOMAIN runs : dag_retry(r)

SpecTrain == Init /\ [][NextTrain]_vars

---------------------------------------------------------------------------
(* The sort of get_model_history alone (app.py:49), on the lists the loop  *)
(* can have built when the registry holds versions 1..MaxHistVersion: the  *)
(* entries of up to MaxHistLen distinct versions, in any order.            *)

HistInputs ==
    UNION { { o \in [1..n -> 1..MaxHistVersion] :
                \A i, j \in 1..n : i # j => o[i] # o[j] } : n \in 0..MaxHistLen }

InitHist ==
    /\ bucket = << >>
    /\ registry = { [version |-> v, stage |-> "None", run |-> v] :
                      v \in 1..MaxHistVersion }
    /\ runs = << >>
    /\ promos = EmptyBag
    /\ resp = NoResp
    /\ \E o \in HistInputs, error \in BOOLEAN :
         history = [appended |-> [i \in DOMAIN o |->
                                    [version |-> Digits(o[i]), stage |-> "None"]],
                    returned |-> << >>, error |-> error]

\* return sorted(history, key=lambda x: int(x['version']), reverse=True)
sort_history ==
    /\ resp = NoResp
    /\ history' = [history EXCEPT !.returned = sorted(history.appended)]
    /\ resp' = Response("dashboard", 500, 0)
    /\ UNCHANGED <<bucket, registry, runs, promos>>

NextHist == sort_history

SpecHist == InitHist /\ [][NextHist]_vars

---------------------------------------------------------------------------
(* Properties *)

\* the first required column a dataset lacks, in the order fit selects them
FirstMissing(df) ==
    IF "sqft" \notin df.cols THEN "sqft"
    ELSE IF "is_expensive" \notin df.cols THEN "is_expensive"
    ELSE "none"

\* a run that has read its training data and left the Training stage
PastTraining(run) ==
    run.df # NoData /\ run.pc \in {"Registering", "Uploading", "Done", "Failed"}

\* C1: at most one model version is in stage Production, in every
\* reachable state, whatever the interleaving of registrations and promotions.
C1_AtMostOneProduction == Cardinality(InProduction(registry)) <= 1

\* C2: a promote(v) that succeeds leaves v in Production, every version that
\* was in Production Archived, and exactly one version in Production; a
\* promote of a version that does not exist answers an error and changes no
\* stage.
C2_PromoteArchivesOthers ==
    [][/\ (resp'.op = "promote" /\ resp'.status = 200) =>
            /\ resp'.arg \in Versions(registry')
            /\ StageOf(registry', resp'.arg) = "Production"
            /\ \A mv \in registry :
                 (mv.version # resp'.arg /\ mv.stage = "Production")
                    => StageOf(registry', mv.version) = "Archived"
            /\ Cardinality(InProduction(registry')) = 1
       /\ (resp'.op = "promote" /\ resp'.status = 500) =>
            /\ resp'.arg \notin Versions(registry)
            /\ registry' = registry]_vars

\* what a registering step does to the registry: the new version's number is
\* above every number assigned before, its stage is None, and the versions
\* there were keep their stage
RegisterStep ==
    \A r \in DOMAIN runs :
       (runs[r].pc = "Registering" /\ runs'[r].registered = "yes") =>
          /\ \A v \in Versions(registry) : runs'[r].version > v
          /\ registry' = registry \cup
                {[version |-> runs'[r].version, stage |-> "None", run |-> r]}

StageRank ==
    [Idle |-> 0, Validating |-> 1, Aggregating |-> 2, Training |-> 3,
     Registering |-> 4, Uploading |-> 4, Done |-> 5, Failed |-> 6]

\* a run stays in its stage, moves to the next one, or fails out of a stage
\* that is not terminal; a terminal run does not change
StageStep(old, new) ==
    LET a == StageRank[old.pc]
        b == StageRank[new.pc]
    IN  \/ new = old
        \/ a < 5 /\ (b = a \/ b = a + 1 \/ (b = 6 /\ a > 0))

\* C4 as stated: the stages are passed in order, and an error in any stage,
\* a failed registration included, ends the run in Failed with no later
\* stage executed.
C4_ErrorsEndTheRun ==
    [][\A r \in DOMAIN runs :
          /\ StageStep(runs[r], runs'[r])
          /\ (runs'[r].err # NoErr \/ runs'[r].registered = "failed"
                 \/ runs'[r].pkl = "failed") => runs'[r].pc = "Failed"]_vars

\* C4 amended: the stages are passed in order and every run ends in Done or
\* in Failed, never both; an error of the client, of the existence check,
\* of the download or of the fit ends the run in Failed; a failed
\* registration or a failed legacy upload is printed and the run goes on to
\* the legacy upload and ends in Done.
C4_StageOrder ==
    [][\A r \in DOMAIN runs :
          /\ StageStep(runs[r], runs'[r])
          /\ runs'[r].err # NoErr <=> runs'[r].pc = "Failed"
          /\ (runs[r].pc = "Registering" /\ runs'[r].pc # "Registering")
                => runs'[r].pc = "Uploading"
          /\ (runs[r].pc = "Uploading" /\ runs'[r].pc # "Uploading")
                => runs'[r].pc = "Done"]_vars

C4_Witness ==
    \E r, q \in DOMAIN runs :
       /\ runs[r].pc = "Done" /\ runs[r].registered = "failed" /\ runs[r].pkl = "yes"
       /\ runs[q].pc = "Failed" /\ runs[q].err.kind = "KeyError"

\* C5 as stated: a training run is started exactly when an upload succeeds,
\* one run per upload.
C5_OneRunPerUpload ==
    [][(resp'.op = "upload" /\ resp'.status = 302)
          <=> Len(runs') = Len(runs) + 1]_vars

\* C5 amended: every accepted trigger-train request starts exactly one
\* training run, an upload starts none, and every run is started by a
\* trigger-train request or by the scheduled pipeline task or its retry.
C5_OneRunPerTrigger ==
    [][/\ resp'.op = "trigger_train" =>
            /\ Len(runs') = Len(runs) + 1
            /\ runs'[Len(runs')] = NewRun("trigger", 0)
       /\ resp'.op = "upload" => runs' = runs
       /\ Len(runs') # Len(runs) =>
            /\ Len(runs') = Len(runs) + 1
            /\ \A r \in DOMAIN runs : runs'[r] = runs[r]
            /\ runs'[Len(runs')].pc = "Idle"
            /\ \/ resp'.op = "trigger_train"
               \/ resp' = NoResp /\ runs'[Len(runs')].origin = "dag"]_vars

C5_Witness ==
    /\ resp.op = "trigger_train"
    /\ bucket = << >>
    /\ Len(runs) = 2
    /\ runs[1].origin = "dag"
    /\ runs[2].origin = "trigger"

\* C6: a prediction is returned only in a state where some version is in
\* stage Production.
C6_PredictNeedsProduction ==
    (resp.op = "predict" /\ resp.status = 200) => InProduction(registry) # {}

IsPermutation(s, t) ==
    /\ Len(s) = Len(t)
    /\ \E f \in [DOMAIN s -> DOMAIN t] :
         /\ \A i, j \in DOMAIN s : i # j => f[i] # f[j]
         /\ \A i \in DOMAIN s : s[i] = t[f[i]]

\* C7: the list history returns holds the entries the loop built, ordered by
\* version number, read as an integer, strictly descending.
C7_HistoryDescending ==
    resp.op = "dashboard" =>
       /\ IsPermutation(history.appended, history.returned)
       /\ \A i \in 1..(Len(history.returned) - 1) :
            int(history.returned[i].version) > int(history.returned[i + 1].version)

C7_Witness ==
    /\ resp.op = "dashboard"
    /\ Len(history.appended) = 3
    /\ history.appended[1].version = <<9>>
    /\ history.appended[2].version = <<1, 0>>
    /\ history.returned[1].version = <<1, 0>>

\* C8 as stated: a run whose dataset lacks a required column fails with a
\* SchemaError naming the column, and has registered and uploaded nothing.
C8_SchemaError ==
    \A r \in DOMAIN runs :
       (PastTraining(runs[r]) /\ FirstMissing(runs[r].df) # "none") =>
          /\ runs[r].pc = "Failed"
          /\ runs[r].err = Error("SchemaError", FirstMissing(runs[r].df))
          /\ runs[r].registered = "no" /\ runs[r].pkl = "no"

\* C8 amended: a run whose dataset lacks a required column fails with a
\* KeyError naming the column, raised inside the tracking run (which ends
\* FAILED) when the columns are selected for the fit, and has registered
\* and uploaded nothing.
C8_KeyError ==
    \A r \in DOMAIN runs :
       (PastTraining(runs[r]) /\ FirstMissing(runs[r].df) # "none") =>
          /\ runs[r].pc = "Failed"
          /\ runs[r].err = Error("KeyError", FirstMissing(runs[r].df))
          /\ runs[r].tracking = "FAILED"
          /\ runs[r].registered = "no" /\ runs[r].version = 0
          /\ runs[r].pkl = "no"
          /\ \A mv \in registry : mv.run # r

C8_Witness ==
    \E r, q \in DOMAIN runs :
       /\ runs[r].df = NoLabel /\ runs[r].err = Error("KeyError", "is_expensive")
       /\ runs[q].df = NoSqft /\ runs[q].err = Error("KeyError", "sqft")

C10_NoDataNoEffects ==
    [][\A r \in DOMAIN runs :
          /\ (runs[r].pc = "Validating" /\ runs'[r].pc # "Validating"
                 /\ ~exists(bucket, DataBlob))
                => runs'[r].err.kind \in Returned
          /\ runs'[r].err.kind \in Returned =>
                /\ runs'[r].pc = "Failed"
                /\ runs'[r].df = NoData
                /\ runs'[r].tracking = "none"
                /\ runs'[r].registered = "no"
                /\ runs'[r].pkl = "no"
                /\ runs[r].pc = "Validating" => (registry' = registry /\ bucket' = bucket)]_vars

C10_Witness ==
    \E r, q \in DOMAIN runs :
       /\ runs[r].err.kind = "NoTrainingData"
       /\ runs[q].pc = "Done"
       /\ registry # {}
       /\ exists(bucket, ModelBlob)
       /\ ~exists(bucket, DataBlob)

====
